---- MODULE Spec2Model ----
(***************************************************************************)
(* QR Code encoder (byte mode, versions 1-10) of                           *)
(* skills/zip-archive/scripts/generate.ts: version selection, bit-stream   *)
(* construction, Reed-Solomon coding, matrix construction, data placement, *)
(* masking and format information, as the pipeline generateQR runs them.   *)
(*                                                                         *)
(* Arrays keep the source's 0-based indices where they are grids           *)
(* (functions over 0..size-1); the constant tables and byte arrays are     *)
(* sequences, indexed from 1, so table[v - 1] of the source is table[v].   *)
(***************************************************************************)
EXTENDS Integers, Sequences, FiniteSets, TLC

\* ------------------------------------------------------------------ bounds

\* SelSpec draws payloads of every byte length 0..MaxLen.
MaxLen == 285
\* Spec draws, per sampled length, the texts Sample(n, s) for s in 0..MaxSeed.
MaxSeed == 1

\* The number of earlier calls of one process whose results are kept.
MaxHistory == 2

\* ---------------------------------------------------------------- helpers

\* TLC evaluates definitions and arguments on demand. Ready(v) is TRUE, and
\* asking for it has v evaluated; Eager(f) is f, evaluated to an explicit
\* table once instead of at every application.
Ready(v) == v = v

Eager(f) == f @@ <<>>

Pow2(k) == 2 ^ k

\* a ^ b of the source, on non-negative integers.
RECURSIVE XOR(_, _)
XOR(a, b) ==
  IF a = 0 THEN b
  ELSE IF b = 0 THEN a
  ELSE 2 * XOR(a \div 2, b \div 2) + ((a + b) % 2)

\* (val >> i) & 1 of the source.
BitAt(val, i) == (val \div Pow2(i)) % 2

\* Math.ceil(a / b) for a >= 0, b > 0.
Ceil(a, b) == (a + b - 1) \div b

\* ----------------------------------------------------------------- tables

ECLs == {"L", "M", "Q", "H"}

TOTAL_CODEWORDS == <<26, 44, 70, 100, 134, 172, 196, 242, 292, 346>>

EC_PER_BLOCK ==
  [L |-> <<7, 10, 15, 20, 18, 18, 20, 24, 30, 18>>,
   M |-> <<10, 16, 26, 18, 24, 16, 18, 22, 22, 26>>,
   Q |-> <<13, 22, 18, 26, 18, 24, 18, 22, 20, 24>>,
   H |-> <<17, 28, 22, 16, 22, 28, 26, 26, 24, 28>>]

EC_BLOCKS ==
  [L |-> <<1, 1, 1, 1, 1, 2, 2, 2, 2, 2>>,
   M |-> <<1, 1, 1, 2, 2, 4, 4, 4, 5, 5>>,
   Q |-> <<1, 1, 2, 2, 4, 4, 6, 6, 8, 8>>,
   H |-> <<1, 1, 2, 4, 4, 4, 5, 6, 8, 8>>]

DATA_CAPACITY ==
  [L |-> <<19, 34, 55, 80, 108, 136, 156, 194, 232, 274>>,
   M |-> <<16, 28, 44, 64, 86, 108, 124, 154, 182, 216>>,
   Q |-> <<13, 22, 34, 48, 62, 76, 88, 110, 132, 154>>,
   H |-> <<9, 16, 26, 36, 46, 60, 66, 86, 100, 122>>]

\* ALIGNMENT_POSITIONS[version] of the source, for version in 1..10 (the
\* source's entry 0 is unused).
ALIGNMENT_POSITIONS ==
  << <<>>, <<6, 18>>, <<6, 22>>, <<6, 26>>, <<6, 30>>,
     <<6, 34>>, <<6, 22, 38>>, <<6, 24, 42>>, <<6, 26, 46>>, <<6, 28, 50>> >>

\* ------------------------------------------------------- version selection

\* charCountBits of chooseVersion, v the 0-based loop index.
CharCountBitsAt(v) == IF v < 9 THEN 8 ELSE 16

\* The loop of chooseVersion from index v on: the version returned (v + 1),
\* or 0 when the loop ends and the function throws.
RECURSIVE ChooseVersionFrom(_, _, _)
ChooseVersionFrom(v, dataLen, ecl) ==
  LET caps == DATA_CAPACITY[ecl]
      totalBits == 4 + CharCountBitsAt(v) + dataLen * 8
      totalBytes == Ceil(totalBits, 8)
  IN IF v >= Len(caps) THEN 0
     ELSE IF totalBytes <= caps[v + 1] THEN v + 1
     ELSE ChooseVersionFrom(v + 1, dataLen, ecl)

\* chooseVersion with Math.floor for Math.ceil.
RECURSIVE ChooseVersionFloorFrom(_, _, _)
ChooseVersionFloorFrom(v, dataLen, ecl) ==
  LET caps == DATA_CAPACITY[ecl]
      totalBytes == (4 + CharCountBitsAt(v) + dataLen * 8) \div 8
  IN IF v >= Len(caps) THEN 0
     ELSE IF totalBytes <= caps[v + 1] THEN v + 1
     ELSE ChooseVersionFloorFrom(v + 1, dataLen, ecl)

chooseVersionFloor(dataLen, ecl) == ChooseVersionFloorFrom(0, dataLen, ecl)

\* chooseVersion with the comparison turned round (>= for <=).
RECURSIVE ChooseVersionInvertedFrom(_, _, _)
ChooseVersionInvertedFrom(v, dataLen, ecl) ==
  LET caps == DATA_CAPACITY[ecl]
      totalBytes == Ceil(4 + CharCountBitsAt(v) + dataLen * 8, 8)
  IN IF v >= Len(caps) THEN 0
     ELSE IF totalBytes >= caps[v + 1] THEN v + 1
     ELSE ChooseVersionInvertedFrom(v + 1, dataLen, ecl)

chooseVersionInverted(dataLen, ecl) == ChooseVersionInvertedFrom(0, dataLen, ecl)

\* chooseVersion returning the loop index v from version 2 on, not v + 1.
chooseVersionIndex(dataLen, ecl) ==
  LET v == ChooseVersionFrom(0, dataLen, ecl) IN IF v >= 2 THEN v - 1 ELSE v

\* chooseVersion falling back to version 10 instead of throwing.
chooseVersionClamp(dataLen, ecl) ==
  LET v == ChooseVersionFrom(0, dataLen, ecl) IN IF v = 0 THEN 10 ELSE v

\* The version, 0 when the loop ends and the Error is thrown, -1 when ecl is
\* no key of DATA_CAPACITY: caps is undefined and caps.length throws.
chooseVersion(dataLen, ecl) ==
  IF ecl \notin DOMAIN DATA_CAPACITY THEN -1
  ELSE ChooseVersionFrom(0, dataLen, ecl)

\* The Error chooseVersion throws.
TooLong(dataLen, ecl) ==
  [message |-> "Data too long for QR versions 1-10", bytes |-> dataLen, ecl |-> ecl]

\* The TypeError of reading length of undefined.
UndefinedRead ==
  [name |-> "TypeError",
   message |-> "Cannot read properties of undefined (reading 'length')"]

\* ------------------------------------------------------------------ GF(256)

\* The doubling step with the polynomial 0x11b in place of 0x11d.
GfStep11B(v) == XOR(v * 2, IF v >= 128 THEN 283 ELSE 0)

\* v = (v << 1) ^ (v >= 128 ? 0x11d : 0)
GfStep(v) == XOR(v * 2, IF v >= 128 THEN 285 ELSE 0)

\* Rounds lo..hi of the loop that fills the two Uint8Array tables (a store
\* keeps the low 8 bits); t holds exp, log and the running v. Long loops are
\* run as two halves, one after the other, to keep the evaluation shallow.
RECURSIVE GfRounds(_, _, _)
GfRounds(lo, hi, t) ==
  IF lo > hi THEN t
  ELSE IF lo = hi
  THEN [exp |-> [t.exp EXCEPT ![lo] = t.v % 256],
        log |-> [t.log EXCEPT ![t.v % 256] = lo % 256],
        v |-> GfStep(t.v)]
  ELSE LET mid == (lo + hi) \div 2
           first == GfRounds(lo, mid, t)
       IN IF Ready(first.v) THEN GfRounds(mid + 1, hi, first) ELSE first

\* The tables after the initialisation block: GF256_EXP[255] = GF256_EXP[0].
GfInit ==
  LET zeros == Eager([x \in 0..255 |-> 0])
      t == GfRounds(0, 254, [exp |-> zeros, log |-> zeros, v |-> 1])
  IN [exp |-> [t.exp EXCEPT ![255] = t.exp[0]], log |-> t.log]

\* The two module-level Uint8Array tables. They are objects every call
\* reads; the initialisation block fills them when the module is loaded.
VARIABLES GF256_EXP, GF256_LOG

\* gfMul reducing the sum of the logarithms modulo 256.
gfMulMod256(a, b) ==
  IF a = 0 \/ b = 0 THEN 0
  ELSE GF256_EXP[(GF256_LOG[a] + GF256_LOG[b]) % 256]

gfMul(a, b) ==
  IF a = 0 \/ b = 0 THEN 0
  ELSE GF256_EXP[(GF256_LOG[a] + GF256_LOG[b]) % 255]

\* ------------------------------------------------------------ Reed-Solomon

\* Round i of the generator-polynomial loop with the factor (x - 2^(i+1)).
RsGenRoundFrom1(gen, i, ecCount) ==
  Eager([j \in 0..ecCount |->
           IF j >= 1 /\ j <= i + 1
           THEN XOR(gen[j], gfMul(gen[j - 1], GF256_EXP[i + 1]))
           ELSE gen[j]])

\* Round i of the generator-polynomial loop of rsEncode; gen is a 0-based
\* array of ecCount + 1 coefficients. The inner loop runs j downwards, so
\* every gen[j - 1] it reads is still the value before this round.
RsGenRound(gen, i, ecCount) ==
  Eager([j \in 0..ecCount |->
           IF j >= 1 /\ j <= i + 1
           THEN XOR(gen[j], gfMul(gen[j - 1], GF256_EXP[i]))
           ELSE gen[j]])

\* Rounds lo..hi of the generator-polynomial loop, as two halves one after
\* the other.
RECURSIVE RsGenerator(_, _, _, _)
RsGenerator(lo, hi, gen, ecCount) ==
  IF lo > hi THEN gen
  ELSE IF lo = hi THEN RsGenRound(gen, lo, ecCount)
  ELSE LET mid == (lo + hi) \div 2
           first == RsGenerator(lo, mid, gen, ecCount)
       IN IF Ready(first[0]) THEN RsGenerator(mid + 1, hi, first, ecCount) ELSE first

\* One round of the division loop of rsEncode, for data byte b; ecCount >= 1.
\* The inner loop runs i upwards, so every result[i + 1] it reads is still the
\* value before this round.
RsRound(result, b, gen, ecCount) ==
  LET lead == XOR(b, result[0])
  IN Eager([i \in 0..(ecCount - 1) |->
              IF i < ecCount - 1
              THEN XOR(result[i + 1], gfMul(gen[i + 1], lead))
              ELSE gfMul(gen[ecCount], lead)])

\* The division loop of rsEncode over the data bytes data[lo..hi] (1-based),
\* as two halves one after the other.
RECURSIVE RsDivide(_, _, _, _, _, _)
RsDivide(data, lo, hi, result, gen, ecCount) ==
  IF lo > hi THEN result
  ELSE IF lo = hi THEN RsRound(result, data[lo], gen, ecCount)
  ELSE LET mid == (lo + hi) \div 2
           first == RsDivide(data, lo, mid, result, gen, ecCount)
       IN IF Ready(first[0]) THEN RsDivide(data, mid + 1, hi, first, gen, ecCount)
          ELSE first

\* rsEncode(data, ecCount): the ecCount error-correction bytes, as a sequence.
rsEncode(data, ecCount) ==
  LET gen0 == Eager([j \in 0..ecCount |-> IF j = 0 THEN 1 ELSE 0])
      gen == RsGenerator(0, ecCount - 1, gen0, ecCount)
      result == IF Ready(gen[0])
                THEN RsDivide(data, 1, Len(data),
                              Eager([i \in 0..(ecCount - 1) |-> 0]), gen, ecCount)
                ELSE gen
  IN [i \in 1..ecCount |-> result[i - 1]] \o <<>>

\* -------------------------------------------------------------------- text

\* A text is a sequence of Unicode code points of the basic plane (no
\* surrogates). Buffer.from(text, "utf-8") of one code point:
Utf8Of(cp) ==
  IF cp < 128 THEN <<cp>>
  ELSE IF cp < 2048 THEN <<192 + (cp \div 64), 128 + (cp % 64)>>
  ELSE <<224 + (cp \div 4096), 128 + ((cp \div 64) % 64), 128 + (cp % 64)>>

\* The bytes of the code points text[lo..hi], in order.
RECURSIVE Utf8Range(_, _, _)
Utf8Range(text, lo, hi) ==
  IF lo > hi THEN <<>>
  ELSE IF lo = hi THEN Utf8Of(text[lo])
  ELSE LET mid == (lo + hi) \div 2
       IN Utf8Range(text, lo, mid) \o Utf8Range(text, mid + 1, hi)

\* Buffer.from(text, "utf-8")
Utf8Bytes(text) == Utf8Range(text, 1, Len(text))

\* Buffer.byteLength(text, "utf-8")
byteLength(text) == Len(Utf8Bytes(text))

\* ---------------------------------------------------------- bit-stream

\* push(val, len): the len low bits of val, most significant first; nothing
\* when len <= 0.
PushBits(val, len) == [i \in 1..len |-> BitAt(val, len - i)]

\* ccBits of 8 for every version.
CcBitsByte(version) == 8

\* ccBits of encodeData.
CcBits(version) == IF version <= 9 THEN 8 ELSE 16

\* for (const b of bytes) push(b, 8)
PayloadBits(bytes) ==
  [k \in 1..(8 * Len(bytes)) |-> BitAt(bytes[((k - 1) \div 8) + 1], 7 - ((k - 1) % 8))]

\* The header with the number of characters (the bytes that do not continue
\* a UTF-8 sequence) in the length field.
HeaderBitsCharCount(bytes, version) ==
  PushBits(4, 4)
    \o PushBits(Cardinality({k \in 1..Len(bytes) : bytes[k] \notin 128..191}),
                CcBits(version))
    \o PayloadBits(bytes)

\* bits after the mode indicator, the character count and the data.
HeaderBits(bytes, version) ==
  PushBits(4, 4) \o PushBits(Len(bytes), CcBits(version)) \o PayloadBits(bytes)

\* totalBits of encodeData.
DataTotalBits(version, ecl) == DATA_CAPACITY[ecl][version] * 8

\* termLen = Math.min(4, totalBits - bits.length)
TermLen(bytes, version, ecl) ==
  LET room == DataTotalBits(version, ecl) - Len(HeaderBits(bytes, version))
  IN IF room < 4 THEN room ELSE 4

\* while (bits.length % 8 !== 0) bits.push(0)
RECURSIVE PadToByte(_)
PadToByte(bits) == IF Len(bits) % 8 # 0 THEN PadToByte(Append(bits, 0)) ELSE bits

\* The pad-byte loop with padToggle starting at true: 0x11 first.
PadBytesFrom11(bits, totalBits) ==
  LET rounds == IF Len(bits) < totalBits THEN Ceil(totalBits - Len(bits), 8) ELSE 0
      pad == [i \in 1..(8 * rounds) |->
                BitAt(IF ((i - 1) \div 8) % 2 = 1 THEN 236 ELSE 17, 7 - ((i - 1) % 8))]
  IN bits \o pad

\* while (bits.length < totalBits) { push(padToggle ? 0x11 : 0xec, 8); ... }:
\* the loop runs Ceil(totalBits - bits.length, 8) times and its k-th round
\* (k from 0) pushes 0xec when k is even, 0x11 when k is odd.
PadBytes(bits, totalBits) ==
  LET rounds == IF Len(bits) < totalBits THEN Ceil(totalBits - Len(bits), 8) ELSE 0
      pad == [i \in 1..(8 * rounds) |->
                BitAt(IF ((i - 1) \div 8) % 2 = 1 THEN 17 ELSE 236, 7 - ((i - 1) % 8))]
  IN bits \o pad

\* bits of encodeData when the conversion to bytes starts.
DataBits(text, version, ecl) ==
  LET bytes == Utf8Bytes(text)
      terminated == HeaderBits(bytes, version) \o PushBits(0, TermLen(bytes, version, ecl))
  IN PadBytes(PadToByte(terminated), DataTotalBits(version, ecl))

\* b = (b << 1) | (bits[i + j] ?? 0) for j = 0..7, i the 0-based start.
ByteAt(bits, i) ==
  LET bit(j) == IF i + j + 1 <= Len(bits) THEN bits[i + j + 1] ELSE 0
  IN 128 * bit(0) + 64 * bit(1) + 32 * bit(2) + 16 * bit(3)
     + 8 * bit(4) + 4 * bit(5) + 2 * bit(6) + bit(7)

\* dataBytes of encodeData.
BitsToBytes(bits) == [n \in 1..Ceil(Len(bits), 8) |-> ByteAt(bits, 8 * (n - 1))]

DataCodewords(text, version, ecl) == BitsToBytes(DataBits(text, version, ecl)) \o <<>>

\* encodeData with the data codewords split into EC_BLOCKS[ecl][version]
\* blocks, each followed up by EC codewords of its own.
encodeDataBlocks(text, version, ecl) ==
  LET dataBytes == DataCodewords(text, version, ecl)
      ecCount == EC_PER_BLOCK[ecl][version]
      blocks == EC_BLOCKS[ecl][version]
      per == Ceil(Len(dataBytes), blocks)
      last(k) == IF k * per < Len(dataBytes) THEN k * per ELSE Len(dataBytes)
      RECURSIVE ecOf(_)
      ecOf(k) ==
        IF k > blocks THEN <<>>
        ELSE rsEncode(SubSeq(dataBytes, (k - 1) * per + 1, last(k)), ecCount) \o ecOf(k + 1)
  IN dataBytes \o ecOf(1)

\* return [...dataBytes, ...ec]
encodeData(text, version, ecl) ==
  LET dataBytes == DataCodewords(text, version, ecl)
      ecCount == EC_PER_BLOCK[ecl][version]
      ec == rsEncode(dataBytes, ecCount)
  IN dataBytes \o ec

\* ------------------------------------------------------------------ matrix

\* A size x size array of arrays whose cell (r, c) is cell[r, c].
Grid(size, cell) ==
  Eager([r \in 0..(size - 1) |-> Eager([c \in 0..(size - 1) |-> cell[r, c]])])

\* The value placeFinderPattern stamps at offset (r, c) of its corner, r and c
\* in -1..7.
FinderValue(r, c) ==
  LET inOuter == r = 0 \/ r = 6 \/ c = 0 \/ c = 6
      inInner == r >= 2 /\ r <= 4 /\ c >= 2 /\ c <= 4
      inBorder == r = -1 \/ r = 7 \/ c = -1 \/ c = 7
  IN IF (inOuter \/ inInner) /\ ~inBorder THEN 1 ELSE 0

\* (rr, cc) is one of the cells placeFinderPattern(row, col) visits.
InFinderArea(row, col, rr, cc) ==
  rr - row >= -1 /\ rr - row <= 7 /\ cc - col >= -1 /\ cc - col <= 7

\* placeFinderPattern(row, col) on the grids g = [matrix, reserved].
placeFinderPattern(g, size, row, col) ==
  [matrix |-> Grid(size, [rr \in 0..(size - 1), cc \in 0..(size - 1) |->
                 IF InFinderArea(row, col, rr, cc)
                 THEN FinderValue(rr - row, cc - col) ELSE g.matrix[rr][cc]]),
   reserved |-> Grid(size, [rr \in 0..(size - 1), cc \in 0..(size - 1) |->
                 InFinderArea(row, col, rr, cc) \/ g.reserved[rr][cc]])]

\* (r, c) is a cell the timing loop writes: matrix[6][i] or matrix[i][6] for
\* i in 8..size-9.
InTiming(size, r, c) ==
  \/ r = 6 /\ c >= 8 /\ c < size - 8
  \/ c = 6 /\ r >= 8 /\ r < size - 8

\* The timing-pattern loop of createMatrix.
PlaceTiming(g, size) ==
  [matrix |-> Grid(size, [r \in 0..(size - 1), c \in 0..(size - 1) |->
                 IF InTiming(size, r, c)
                 THEN (IF (IF r = 6 THEN c ELSE r) % 2 = 0 THEN 1 ELSE 0)
                 ELSE g.matrix[r][c]]),
   reserved |-> Grid(size, [r \in 0..(size - 1), c \in 0..(size - 1) |-> InTiming(size, r, c) \/ g.reserved[r][c]])]

\* The (r, c) pairs of the two nested loops over ALIGNMENT_POSITIONS[version],
\* in the order the loops visit them.
AlignmentPairs(version) ==
  LET positions == ALIGNMENT_POSITIONS[version]
      n == Len(positions)
  IN [k \in 1..(n * n) |-> <<positions[((k - 1) \div n) + 1], positions[((k - 1) % n) + 1]>>]

\* The body of the alignment loops without the test of the centre cell: the
\* pattern is stamped at every pair.
PlaceAlignmentUnchecked(g, size, r, c) ==
  LET inArea(rr, cc) == rr - r >= -2 /\ rr - r <= 2 /\ cc - c >= -2 /\ cc - c <= 2
      value(dr, dc) ==
        LET edge == dr = 2 \/ dr = -2 \/ dc = 2 \/ dc = -2
            center == dr = 0 /\ dc = 0
        IN IF edge \/ center THEN 1 ELSE 0
  IN [matrix |-> Grid(size, [rr \in 0..(size - 1), cc \in 0..(size - 1) |->
                   IF inArea(rr, cc) THEN value(rr - r, cc - c) ELSE g.matrix[rr][cc]]),
      reserved |-> Grid(size, [rr \in 0..(size - 1), cc \in 0..(size - 1) |-> inArea(rr, cc) \/ g.reserved[rr][cc]])]

\* The body of the alignment loops for centre (r, c), stamped unless the
\* centre cell is already reserved.
PlaceAlignment(g, size, r, c) ==
  IF g.reserved[r][c] THEN g
  ELSE LET inArea(rr, cc) == rr - r >= -2 /\ rr - r <= 2 /\ cc - c >= -2 /\ cc - c <= 2
           value(dr, dc) ==
             LET edge == dr = 2 \/ dr = -2 \/ dc = 2 \/ dc = -2
                 center == dr = 0 /\ dc = 0
             IN IF edge \/ center THEN 1 ELSE 0
       IN [matrix |-> Grid(size, [rr \in 0..(size - 1), cc \in 0..(size - 1) |->
                        IF inArea(rr, cc) THEN value(rr - r, cc - c) ELSE g.matrix[rr][cc]]),
           reserved |-> Grid(size, [rr \in 0..(size - 1), cc \in 0..(size - 1) |-> inArea(rr, cc) \/ g.reserved[rr][cc]])]

\* The alignment loops from the k-th pair on.
RECURSIVE PlaceAlignments(_, _, _, _)
PlaceAlignments(g, size, pairs, k) ==
  IF k > Len(pairs) THEN g
  ELSE LET next == PlaceAlignment(g, size, pairs[k][1], pairs[k][2])
       IN IF Ready(next.matrix[0][0]) THEN PlaceAlignments(next, size, pairs, k + 1)
          ELSE next

\* The dark module with row and column exchanged, at (8, size - 8).
PlaceDarkModuleTransposed(g, size) ==
  [matrix |-> [g.matrix EXCEPT ![8][size - 8] = 1],
   reserved |-> [g.reserved EXCEPT ![8][size - 8] = TRUE]]

\* matrix[size - 8][8] = 1; reserved[size - 8][8] = true
PlaceDarkModule(g, size) ==
  [matrix |-> [g.matrix EXCEPT ![size - 8][8] = 1],
   reserved |-> [g.reserved EXCEPT ![size - 8][8] = TRUE]]

\* (r, c) is a cell the format-area loop reserves, for some i in 0..8.
InFormatArea(size, r, c) ==
  \/ r = 8 /\ c >= 0 /\ c <= 8
  \/ c = 8 /\ r >= 0 /\ r <= 8
  \/ r = 8 /\ c >= size - 9 /\ c <= size - 1
  \/ c = 8 /\ r >= size - 9 /\ r <= size - 1

\* The loop that reserves the format info areas; it writes no module.
ReserveFormat(g, size) ==
  [matrix |-> g.matrix,
   reserved |-> Grid(size, [r \in 0..(size - 1), c \in 0..(size - 1) |-> InFormatArea(size, r, c) \/ g.reserved[r][c]])]

\* createMatrix up to and including the dark module: the grids once every
\* structural pattern is stamped and before the format areas are reserved.
StampPatterns(version, size) ==
  LET blank == [matrix |-> Grid(size, [r \in 0..(size - 1), c \in 0..(size - 1) |-> 0]),
                reserved |-> Grid(size, [r \in 0..(size - 1), c \in 0..(size - 1) |-> FALSE])]
      finders == placeFinderPattern(
                   placeFinderPattern(placeFinderPattern(blank, size, 0, 0), size, 0, size - 7),
                   size, size - 7, 0)
      timed == PlaceTiming(finders, size)
      aligned == IF version >= 2
                 THEN PlaceAlignments(timed, size, AlignmentPairs(version), 1)
                 ELSE timed
  IN PlaceDarkModule(aligned, size)

\* The body of createMatrix for a matrix of the given size.
BuildMatrix(version, size) ==
  LET g == ReserveFormat(StampPatterns(version, size), size)
  IN [size |-> size, matrix |-> g.matrix, reserved |-> g.reserved]

\* createMatrix with the 1-based version taken for the 0-based table index.
createMatrixIndexed(version) == BuildMatrix(version, 17 + (version + 1) * 4)

createMatrix(version) == BuildMatrix(version, 17 + version * 4)

\* ---------------------------------------------------------- data placement

\* getBit() at bit index bitIdx: the bit, 0 once the codewords are exhausted.
GetBit(codewords, bitIdx) ==
  IF bitIdx >= Len(codewords) * 8 THEN 0
  ELSE BitAt(codewords[(bitIdx \div 8) + 1], 7 - (bitIdx % 8))

\* The innermost loop body of placeData for cell (row, c); st holds the matrix
\* and bitIdx, which getBit advances only while codeword bits remain.
PlaceCell(st, reserved, codewords, size, row, c) ==
  IF c < 0 \/ c >= size THEN st
  ELSE IF reserved[row][c] THEN st
  ELSE [matrix |-> [st.matrix EXCEPT ![row][c] = GetBit(codewords, st.bitIdx)],
        bitIdx |-> IF st.bitIdx >= Len(codewords) * 8 THEN st.bitIdx ELSE st.bitIdx + 1]

\* rows[k] of placeData, k from 0.
LaneRow(size, upward, k) == IF upward THEN size - 1 - k ELSE k

\* The loop over rows[lo..hi] of the lane at column col (dc = 0, then -1), as
\* two halves one after the other.
RECURSIVE PlaceRows(_, _, _, _, _, _, _, _)
PlaceRows(st, reserved, codewords, size, col, upward, lo, hi) ==
  IF lo > hi THEN st
  ELSE IF lo = hi
  THEN LET row == LaneRow(size, upward, lo)
       IN PlaceCell(PlaceCell(st, reserved, codewords, size, row, col),
                    reserved, codewords, size, row, col - 1)
  ELSE LET mid == (lo + hi) \div 2
           first == PlaceRows(st, reserved, codewords, size, col, upward, lo, mid)
       IN IF Ready(first.bitIdx)
          THEN PlaceRows(first, reserved, codewords, size, col, upward, mid + 1, hi)
          ELSE first

\* while (col >= 0) { if (col === 6) col--; ...; col -= 2; upward = !upward }
RECURSIVE PlaceLanes(_, _, _, _, _, _)
PlaceLanes(st, reserved, codewords, size, col, upward) ==
  IF col < 0 THEN st
  ELSE LET lane == IF col = 6 THEN col - 1 ELSE col
           done == PlaceRows(st, reserved, codewords, size, lane, upward, 0, size - 1)
       IN IF Ready(done.bitIdx)
          THEN PlaceLanes(done, reserved, codewords, size, lane - 2, ~upward)
          ELSE done

\* The matrix and bitIdx when placeData returns.
PlaceDataRun(matrix, reserved, codewords, size) ==
  PlaceLanes([matrix |-> matrix, bitIdx |-> 0], reserved, codewords, size, size - 1, TRUE)

placeData(matrix, reserved, codewords, size) ==
  PlaceDataRun(matrix, reserved, codewords, size).matrix

\* ----------------------------------------------------------------- masking

\* applyMask without the test of the reserved flag.
applyMaskAll(matrix, reserved, size) ==
  Grid(size, [r \in 0..(size - 1), c \in 0..(size - 1) |->
    IF (r + c) % 2 = 0 THEN XOR(matrix[r][c], 1) ELSE matrix[r][c]])

\* applyMask with the condition of mask pattern 1, row % 2 === 0.
applyMaskRows(matrix, reserved, size) ==
  Grid(size, [r \in 0..(size - 1), c \in 0..(size - 1) |->
    IF reserved[r][c] THEN matrix[r][c]
    ELSE IF r % 2 = 0 THEN XOR(matrix[r][c], 1)
    ELSE matrix[r][c]])

applyMask(matrix, reserved, size) ==
  Grid(size, [r \in 0..(size - 1), c \in 0..(size - 1) |->
    IF reserved[r][c] THEN matrix[r][c]
    ELSE IF (r + c) % 2 = 0 THEN XOR(matrix[r][c], 1)
    ELSE matrix[r][c]])

\* ------------------------------------------------------------- format info

\* eclBits numbering the levels in the order L, M, Q, H.
EclBitsOrdinal == [L |-> 0, M |-> 1, Q |-> 2, H |-> 3]

EclBits == [L |-> 1, M |-> 0, Q |-> 3, H |-> 2]

MaskPattern == 0

\* gen of placeFormatInfo, 0b10100110111.
FormatGen == 1335

\* 0b101010000010010
FormatXorMask == 21522

\* The BCH loop of placeFormatInfo from bit i down to bit 10.
RECURSIVE BchReduce(_, _)
BchReduce(data, i) ==
  IF i < 10 THEN data
  ELSE BchReduce(IF BitAt(data, i) = 1 THEN XOR(data, FormatGen * Pow2(i - 10)) ELSE data,
                 i - 1)

\* formatInfo with the BCH loop starting at bit 13 instead of bit 14.
FormatInfoFrom13(ecl) ==
  LET field == EclBits[ecl] * 8 + MaskPattern
      data == BchReduce(field * 1024, 13)
  IN XOR(field * 1024 + (data % 1024), FormatXorMask)

\* formatInfo of placeFormatInfo after the XOR with the fixed mask; the |
\* of the source joins a 5-bit field shifted by 10 and a value below 2^10.
FormatInfo(ecl) ==
  LET field == EclBits[ecl] * 8 + MaskPattern
      data == BchReduce(field * 1024, 14)
  IN XOR(field * 1024 + data, FormatXorMask)

\* bits of placeFormatInfo: bits[i] (1-based here) is bit 15 - i of formatInfo.
FormatBits(ecl) == [i \in 1..15 |-> BitAt(FormatInfo(ecl), 15 - i)]

HPositions(size) ==
  <<0, 1, 2, 3, 4, 5, 7, 8, size - 8, size - 7, size - 6, size - 5, size - 4,
    size - 3, size - 2>>

VPositions(size) ==
  <<size - 1, size - 2, size - 3, size - 4, size - 5, size - 6, size - 7, 8, 7, 5,
    4, 3, 2, 1, 0>>

\* for (i...) matrix[8][hPositions[i]] = bits[i], from the i-th write on.
RECURSIVE WriteRow8(_, _, _, _)
WriteRow8(matrix, positions, bits, i) ==
  IF i > 15 THEN matrix
  ELSE LET next == [matrix EXCEPT ![8][positions[i]] = bits[i]]
       IN IF Ready(next[0][0]) THEN WriteRow8(next, positions, bits, i + 1) ELSE next

\* for (i...) matrix[vPositions[i]][8] = bits[i], from the i-th write on.
RECURSIVE WriteCol8(_, _, _, _)
WriteCol8(matrix, positions, bits, i) ==
  IF i > 15 THEN matrix
  ELSE LET next == [matrix EXCEPT ![positions[i]][8] = bits[i]]
       IN IF Ready(next[0][0]) THEN WriteCol8(next, positions, bits, i + 1) ELSE next

\* placeFormatInfo with a row-8 position list that does not skip column 6.
placeFormatInfoNoSkip(matrix, size, ecl) ==
  LET bits == FormatBits(ecl) \o <<>>
      hPositions == <<0, 1, 2, 3, 4, 5, 6, 7, size - 8, size - 7, size - 6, size - 5,
                      size - 4, size - 3, size - 2>>
  IN WriteCol8(WriteRow8(matrix, hPositions, bits, 1), VPositions(size), bits, 1)

placeFormatInfo(matrix, size, ecl) ==
  LET bits == FormatBits(ecl) \o <<>>
  IN WriteCol8(WriteRow8(matrix, HPositions(size), bits, 1), VPositions(size), bits, 1)

\* --------------------------------------------------------------- rendering

\* (num / den).toFixed(2) for num >= 0 and den > 0, in hundredths: the nearest
\* hundredth, the larger one on a tie.
ToFixed2(num, den) == (200 * num + den) \div (2 * den)

\* The rect pushed for the dark module (c, r) with r and c exchanged.
SvgRectTransposed(r, c, size, px, fg, quiet) ==
  LET totalModules == size + quiet * 2
  IN [x |-> ToFixed2((r + quiet) * px, totalModules),
      y |-> ToFixed2((c + quiet) * px, totalModules),
      width |-> ToFixed2(px, totalModules),
      height |-> ToFixed2(px, totalModules),
      fill |-> fg]

\* The rect pushed for the dark module (r, c): x, y, width and height in
\* hundredths, as toFixed(2) prints them; moduleSize is px / totalModules.
SvgRect(r, c, size, px, fg, quiet) ==
  LET totalModules == size + quiet * 2
  IN [x |-> ToFixed2((c + quiet) * px, totalModules),
      y |-> ToFixed2((r + quiet) * px, totalModules),
      width |-> ToFixed2(px, totalModules),
      height |-> ToFixed2(px, totalModules),
      fill |-> fg]

\* The markup matrixToSvg returns: the attributes of the svg element and its
\* children in document order, the background rect and then the rects pushed
\* by the loops over r and c.
matrixToSvg(matrix, size, px, fg, bg, quiet) ==
  LET cells == [k \in 1..(size * size) |-> k - 1]
      dark == SelectSeq(cells, LAMBDA k : matrix[k \div size][k % size] # 0)
      rects == [i \in 1..Len(dark) |->
                  SvgRect(dark[i] \div size, dark[i] % size, size, px, fg, quiet)]
  IN [viewBox |-> <<0, 0, px, px>>,
      width |-> px,
      height |-> px,
      children |-> <<[width |-> px, height |-> px, fill |-> bg]>> \o rects]

\* ---------------------------------------------------------------- pipeline

\* One call of generateQR: pc names the step that runs next, "done" once the
\* matrix is complete and "failed" once chooseVersion has thrown. version,
\* codewords, size, matrix and reserved are the locals of generateQR, empty
\* (0, <<>>) until the step that creates them has run; error holds the
\* Error thrown, if any.
VARIABLES pc, text, ecl, version, codewords, size, matrix, reserved, error

\* argv holds the command-line flags main reads; opts the px, fg, bg and quiet
\* parameters of generateQR; svg the markup matrixToSvg returns (<<>> until
\* then). history holds, in order, the results of the calls that returned
\* earlier in the same process, and peer the locals of a second call of generateQR.
VARIABLES argv, opts, svg, history, peer

\* mul is the frame of a call of gfMul: its arguments a and b and, once it
\* has returned, its result.
VARIABLE mul

\* The module-level state that outlives a call.
globals == <<GF256_EXP, GF256_LOG>>

vars == <<pc, text, ecl, version, codewords, size, matrix, reserved, error,
          argv, opts, svg, history, peer, globals, mul>>

\* The defaults main gives to --size, --fg, --bg and --quiet.
DefaultOpts == [px |-> 256, fg |-> "#000000", bg |-> "#ffffff", quiet |-> 4]

\* No second call.
NoCall == [pc |-> "none"]

\* No call of gfMul.
NoMul == [pc |-> "none"]

\* "HELLO"
Hello == <<72, 69, 76, 76, 79>>

\* An ASCII text of n characters.
AsciiText(n) == [i \in 1..n |-> 65 + (i % 26)] \o <<>>

\* A text of n characters that mixes 1-, 2- and 3-byte code points ("A",
\* e-acute, the euro sign), the mix depending on s.
MixedText(n, s) == [i \in 1..n |-> <<65, 233, 8364>>[((i * s) % 3) + 1]] \o <<>>

\* The texts of Spec: seed 0 is ASCII, the other seeds are mixed.
Sample(n, s) == IF s = 0 THEN AsciiText(n) ELSE MixedText(n, s)

\* The character counts Spec samples at every level: the short payloads, both
\* sides of the version boundaries at 14/15 and 17/18 bytes, the 80-byte
\* scenario and the 281-byte capacity error.
SampleLens == {0, 5, 14, 15, 17, 18, 80, 281}

\* The longest payload chooseVersion accepts at version v and level e.
MaxPayload(e, v) == DATA_CAPACITY[e][v] - (IF v <= 9 THEN 2 ELSE 3)

\* The texts Spec encodes at level e: the samples, and the longest ASCII
\* payload of every version 1..10, so that every (version, level) pair runs.
SampleTexts(e) ==
  {Hello} \cup {Sample(n, s) : n \in SampleLens, s \in 0..MaxSeed}
          \cup {AsciiText(MaxPayload(e, v)) : v \in 1..10}

\* The ASCII payloads of every byte length 0..MaxLen.
SelTexts == {Hello} \cup {AsciiText(n) : n \in 0..MaxLen}

Start(Texts) ==
  /\ pc = "chooseVersion"
  /\ ecl \in ECLs
  /\ text \in Texts[ecl]
  /\ version = 0
  /\ codewords = <<>>
  /\ size = 0
  /\ matrix = <<>>
  /\ reserved = <<>>
  /\ error = <<>>
  /\ GF256_EXP = GfInit.exp
  /\ GF256_LOG = GfInit.log
  /\ argv = <<>>
  /\ opts = DefaultOpts
  /\ svg = <<>>
  /\ history = <<>>
  /\ peer = NoCall
  /\ mul = NoMul

Init == Start([e \in ECLs |-> SampleTexts(e)])

InitSel == Start([e \in ECLs |-> SelTexts])

\* const version = chooseVersion(Buffer.byteLength(text, "utf-8"), ecl)
ChooseVersion ==
  /\ pc = "chooseVersion"
  /\ LET dataLen == byteLength(text)
         v == chooseVersion(dataLen, ecl)
     IN IF v <= 0
        THEN /\ pc' = "failed"
             /\ error' = <<IF v = 0 THEN TooLong(dataLen, ecl) ELSE UndefinedRead>>
             /\ UNCHANGED version
        ELSE /\ pc' = "encodeData"
             /\ version' = v
             /\ UNCHANGED error
  /\ UNCHANGED <<text, ecl, codewords, size, matrix, reserved>>
  /\ UNCHANGED <<argv, opts, svg, history, peer, globals, mul>>

\* encodeData leaving the byte count of its payload in the exponent table.
EncodeDataScratch ==
  /\ pc = "encodeData"
  /\ codewords' = encodeData(text, version, ecl)
  /\ GF256_EXP' = [GF256_EXP EXCEPT ![1] = byteLength(text) % 256]
  /\ pc' = "createMatrix"
  /\ UNCHANGED <<text, ecl, version, size, matrix, reserved, error>>
  /\ UNCHANGED <<argv, opts, svg, history, peer, GF256_LOG, mul>>

\* const codewords = encodeData(text, version, ecl)
EncodeData ==
  /\ pc = "encodeData"
  /\ codewords' = encodeData(text, version, ecl)
  /\ pc' = "createMatrix"
  /\ UNCHANGED <<text, ecl, version, size, matrix, reserved, error>>
  /\ UNCHANGED <<argv, opts, svg, history, peer, globals, mul>>

\* const { size, matrix, reserved } = createMatrix(version)
CreateMatrix ==
  /\ pc = "createMatrix"
  /\ LET g == createMatrix(version)
     IN /\ size' = g.size
        /\ matrix' = g.matrix
        /\ reserved' = g.reserved
  /\ pc' = "placeData"
  /\ UNCHANGED <<text, ecl, version, codewords, error>>
  /\ UNCHANGED <<argv, opts, svg, history, peer, globals, mul>>

\* placeData(matrix, reserved, codewords, size)
PlaceData ==
  /\ pc = "placeData"
  /\ matrix' = placeData(matrix, reserved, codewords, size)
  /\ pc' = "applyMask"
  /\ UNCHANGED <<text, ecl, version, codewords, size, reserved, error>>
  /\ UNCHANGED <<argv, opts, svg, history, peer, globals, mul>>

\* applyMask(matrix, reserved, size)
ApplyMask ==
  /\ pc = "applyMask"
  /\ matrix' = applyMask(matrix, reserved, size)
  /\ pc' = "placeFormatInfo"
  /\ UNCHANGED <<text, ecl, version, codewords, size, reserved, error>>
  /\ UNCHANGED <<argv, opts, svg, history, peer, globals, mul>>

\* placeFormatInfo(matrix, size, ecl)
PlaceFormatInfo ==
  /\ pc = "placeFormatInfo"
  /\ matrix' = placeFormatInfo(matrix, size, ecl)
  /\ pc' = "done"
  /\ UNCHANGED <<text, ecl, version, codewords, size, reserved, error>>
  /\ UNCHANGED <<argv, opts, svg, history, peer, globals, mul>>

\* return matrixToSvg(matrix, size, px, fg, bg, quiet)
MatrixToSvg ==
  /\ pc = "done"
  /\ svg' = matrixToSvg(matrix, size, opts.px, opts.fg, opts.bg, opts.quiet)
  /\ pc' = "returned"
  /\ UNCHANGED <<text, ecl, version, codewords, size, matrix, reserved, error>>
  /\ UNCHANGED <<argv, opts, history, peer, globals, mul>>

Next ==
  \/ ChooseVersion
  \/ EncodeData
  \/ CreateMatrix
  \/ PlaceData
  \/ ApplyMask
  \/ PlaceFormatInfo
  \/ MatrixToSvg

Spec == Init /\ [][Next]_vars

\* The call has neither returned nor thrown.
Running == pc \notin {"returned", "failed"}

\* Control leaves the current statement of generateQR.
Advance ==
  /\ Running
  /\ pc' \in {"encodeData", "createMatrix", "placeData", "applyMask",
              "placeFormatInfo", "done", "returned", "failed"}

\* generateQR is synchronous: a call that has started runs every statement,
\* so control does not rest at a statement for ever.  Every step of Next
\* changes pc and Next is enabled exactly in the Running states, so this is
\* weak fairness of Next.
FairSpec == Spec /\ WF_pc(Advance)

\* Version selection alone, on every byte length 0..MaxLen.
SelSpec == InitSel /\ [][ChooseVersion]_vars

\* ------------------------------------------------------------ command line

\* A flag's value is a string, here the sequence of its character codes;
\* <<>> in argv stands for a flag that is not given, <<s>> for the value s.
Digit(ch) == ch \in 48..57

\* parseInt(s) for a string s of decimal digits.
RECURSIVE ParseInt(_)
ParseInt(s) ==
  IF s = <<>> THEN 0
  ELSE 10 * ParseInt(SubSeq(s, 1, Len(s) - 1)) + (s[Len(s)] - 48)

\* get(flag) ?? dflt
GetOr(value, dflt) == IF value = <<>> THEN dflt ELSE value[1]

\* The command lines of CliSpec: --data absent, "", "HELLO" or a 12-byte
\* text; --ecl absent, "L", "H" or "X"; --size absent, "512" or "100";
\* --quiet absent, "0" or "2".
CliArgs ==
  [data : {<<>>, <<<<>>>>, <<Hello>>, <<MixedText(6, 1)>>},
   ecl : {<<>>, <<"L">>, <<"H">>, <<"X">>},
   size : {<<>>, <<<<53, 49, 50>>>>, <<<<49, 48, 48>>>>},
   quiet : {<<>>, <<<<48>>>>, <<<<50>>>>}]

\* The process at the entry of main: no call of generateQR yet.
InitCli ==
  /\ pc = "main"
  /\ argv \in CliArgs
  /\ text = <<>>
  /\ ecl = ""
  /\ version = 0
  /\ codewords = <<>>
  /\ size = 0
  /\ matrix = <<>>
  /\ reserved = <<>>
  /\ error = <<>>
  /\ GF256_EXP = GfInit.exp
  /\ GF256_LOG = GfInit.log
  /\ opts = <<>>
  /\ svg = <<>>
  /\ history = <<>>
  /\ peer = NoCall
  /\ mul = NoMul

\* main up to its call of generateQR: without --data (or with "") it prints
\* the usage line and exits; the value of --ecl is cast, not tested.
Main ==
  /\ pc = "main"
  /\ IF argv.data = <<>> \/ argv.data[1] = <<>>
     THEN /\ pc' = "usage"
          /\ UNCHANGED <<text, ecl, opts>>
     ELSE /\ text' = argv.data[1]
          /\ ecl' = GetOr(argv.ecl, "M")
          /\ opts' = [px |-> ParseInt(GetOr(argv.size, <<50, 53, 54>>)),
                      fg |-> "#000000",
                      bg |-> "#ffffff",
                      quiet |-> ParseInt(GetOr(argv.quiet, <<52>>))]
          /\ pc' = "chooseVersion"
  /\ UNCHANGED <<version, codewords, size, matrix, reserved, error>>
  /\ UNCHANGED <<argv, svg, history, peer, globals, mul>>

CliNext == Main \/ Next

CliSpec == InitCli /\ [][CliNext]_vars

\* ------------------------------------------------- calls one after another

\* The payloads and levels of the calls one process makes in a row: 5 and 12
\* bytes, versions 1 and 2.
SeqTexts == {Hello, MixedText(6, 1)}

SeqEcls == {"M", "H"}

InitSeq == Start([e \in ECLs |-> IF e \in SeqEcls THEN SeqTexts ELSE {}])

\* The next call of generateQR in the same process: the call before it has
\* returned or thrown; its result is kept, and the new call starts with
\* fresh locals and any payload and level.
CallAgain ==
  /\ pc \in {"returned", "failed"}
  /\ Len(history) < MaxHistory
  /\ history' = IF pc = "returned"
                THEN Append(history, [text |-> text, ecl |-> ecl, size |-> size,
                                      matrix |-> matrix, svg |-> svg])
                ELSE history
  /\ \E e \in SeqEcls : \E t \in SeqTexts : ecl' = e /\ text' = t
  /\ pc' = "chooseVersion"
  /\ version' = 0
  /\ codewords' = <<>>
  /\ size' = 0
  /\ matrix' = <<>>
  /\ reserved' = <<>>
  /\ error' = <<>>
  /\ svg' = <<>>
  /\ UNCHANGED <<argv, opts, peer, globals, mul>>

SeqNext == Next \/ CallAgain

SeqSpec == InitSeq /\ [][SeqNext]_vars

\* --------------------------------------------------- two calls interleaved

\* The locals of a call of generateQR(t, e, ...) at its entry.
NewCall(t, e) ==
  [pc |-> "chooseVersion", text |-> t, ecl |-> e, version |-> 0,
   codewords |-> <<>>, size |-> 0, matrix |-> <<>>, reserved |-> <<>>,
   error |-> <<>>, svg |-> <<>>]

\* The statement of generateQR at which call c stands, run on the locals of c.
StepOf(c) ==
  CASE c.pc = "chooseVersion" ->
         LET dataLen == byteLength(c.text)
             v == chooseVersion(dataLen, c.ecl)
         IN IF v <= 0
            THEN [c EXCEPT !.pc = "failed",
                           !.error = <<IF v = 0 THEN TooLong(dataLen, c.ecl)
                                       ELSE UndefinedRead>>]
            ELSE [c EXCEPT !.pc = "encodeData", !.version = v]
    [] c.pc = "encodeData" ->
         [c EXCEPT !.pc = "createMatrix",
                   !.codewords = encodeData(c.text, c.version, c.ecl)]
    [] c.pc = "createMatrix" ->
         LET g == createMatrix(c.version)
         IN [c EXCEPT !.pc = "placeData", !.size = g.size,
                      !.matrix = g.matrix, !.reserved = g.reserved]
    [] c.pc = "placeData" ->
         [c EXCEPT !.pc = "applyMask",
                   !.matrix = placeData(c.matrix, c.reserved, c.codewords, c.size)]
    [] c.pc = "applyMask" ->
         [c EXCEPT !.pc = "placeFormatInfo",
                   !.matrix = applyMask(c.matrix, c.reserved, c.size)]
    [] c.pc = "placeFormatInfo" ->
         [c EXCEPT !.pc = "done", !.matrix = placeFormatInfo(c.matrix, c.size, c.ecl)]
    [] c.pc = "done" ->
         [c EXCEPT !.pc = "returned",
                   !.svg = matrixToSvg(c.matrix, c.size, opts.px, opts.fg, opts.bg,
                                       opts.quiet)]

\* A second call of generateQR starts, at any point of the first.
PeerCall ==
  /\ peer.pc = "none"
  /\ \E e \in SeqEcls : \E t \in SeqTexts : peer' = NewCall(t, e)
  /\ UNCHANGED <<pc, text, ecl, version, codewords, size, matrix, reserved, error>>
  /\ UNCHANGED <<argv, opts, svg, history, globals, mul>>

\* A step of the second call in which placeData works on the matrix of the
\* first call when that matrix has the side it needs.
PeerStepShared ==
  /\ peer.pc \notin {"none", "returned", "failed"}
  /\ peer' = StepOf(peer)
  /\ matrix' = IF peer.pc = "placeData" /\ size = peer.size THEN peer'.matrix ELSE matrix
  /\ UNCHANGED <<pc, text, ecl, version, codewords, size, reserved, error>>
  /\ UNCHANGED <<argv, opts, svg, history, globals, mul>>

\* A step of the second call.
PeerStep ==
  /\ peer.pc \notin {"none", "returned", "failed"}
  /\ peer' = StepOf(peer)
  /\ UNCHANGED <<pc, text, ecl, version, codewords, size, matrix, reserved, error>>
  /\ UNCHANGED <<argv, opts, svg, history, globals, mul>>

ParNext == Next \/ PeerCall \/ PeerStep

\* Two calls whose steps interleave in every order.
ParSpec == InitSeq /\ [][ParNext]_vars

\* ------------------------------------------------------- gfMul on its own

\* The values of an element of a Uint8Array.
Bytes == 0..255

\* A call of gfMul(a, b) on any two bytes, with the tables as the module
\* initialisation leaves them and no call of generateQR under way.
InitMul ==
  /\ mul \in [pc : {"gfMul"}, a : Bytes, b : Bytes]
  /\ pc = "chooseVersion"
  /\ text = Hello
  /\ ecl = "M"
  /\ version = 0
  /\ codewords = <<>>
  /\ size = 0
  /\ matrix = <<>>
  /\ reserved = <<>>
  /\ error = <<>>
  /\ GF256_EXP = GfInit.exp
  /\ GF256_LOG = GfInit.log
  /\ argv = <<>>
  /\ opts = DefaultOpts
  /\ svg = <<>>
  /\ history = <<>>
  /\ peer = NoCall

\* return of gfMul(a, b)
GfMul ==
  /\ mul.pc = "gfMul"
  /\ mul' = [pc |-> "returned", a |-> mul.a, b |-> mul.b, result |-> gfMul(mul.a, mul.b)]
  /\ UNCHANGED <<pc, text, ecl, version, codewords, size, matrix, reserved, error>>
  /\ UNCHANGED <<argv, opts, svg, history, peer, globals>>

MulSpec == InitMul /\ [][GfMul]_vars

\* ================================================================= claims

\* The capacity bound of the version selector for version v in 1..10:
\* ceil((4 + charCountBits(v) + 8 n) / 8) <= DATA_CAPACITY[e][v], with
\* charCountBits(v) = 8 for v <= 9 and 16 for v = 10.
CapacityBound(v, n, e) ==
  Ceil(4 + (IF v <= 9 THEN 8 ELSE 16) + 8 * n, 8) <= DATA_CAPACITY[e][v]

\* The versions whose capacity bound the payload of the current call meets.
FittingVersions == {v \in 1..10 : CapacityBound(v, byteLength(text), ecl)}

\* Version selection has run and returned a version.
Selected == pc \notin {"chooseVersion", "failed"}

\* The matrix of the call is complete.
Produced == pc \in {"done", "returned"}

\* C1: whenever some version 1..10 meets the capacity bound, chooseVersion
\* returns the smallest such version; "HELLO" at level M gets version 1, whose
\* matrix side is 21.
C1_SmallestVersion ==
  (pc # "chooseVersion" /\ FittingVersions # {}) =>
    /\ Selected
    /\ version \in FittingVersions
    /\ \A w \in FittingVersions : version <= w
    /\ (text = Hello /\ ecl = "M") => (version = 1 /\ 17 + version * 4 = 21)

C1_Witness == pc = "encodeData" /\ text = Hello /\ ecl = "M" /\ version = 1

\* C2: when no version 1..10 meets the capacity bound, the call fails in
\* version selection with an error that reports the byte length and the level,
\* and nothing else has been created: no codewords, no matrix, no reserved
\* grid; a call fails in no other case, and an error is never left beside a
\* matrix.
C2_CapacityError ==
  /\ (pc # "chooseVersion" /\ FittingVersions = {}) =>
       /\ pc = "failed"
       /\ error = <<[message |-> "Data too long for QR versions 1-10",
                     bytes |-> byteLength(text), ecl |-> ecl]>>
       /\ version = 0 /\ codewords = <<>> /\ size = 0
       /\ matrix = <<>> /\ reserved = <<>>
  /\ pc = "failed" => FittingVersions = {}
  /\ error # <<>> => pc = "failed"

C2_Witness ==
  /\ pc = "failed"
  /\ text = AsciiText(281) /\ ecl = "L"
  /\ error[1].bytes = 281 /\ error[1].ecl = "L"

\* C3 as stated: an 80-byte ASCII string at level M selects version 6 and
\* gives a 41 x 41 matrix.
C3_Original ==
  (text = AsciiText(80) /\ ecl = "M") =>
    /\ Selected => version = 6
    /\ Produced => size = 41

\* C3 as amended: an 80-byte ASCII string at level M selects version 5, the
\* smallest version whose M-level capacity bound the payload meets, and gives
\* a 37 x 37 matrix.
C3_Version5 ==
  (text = AsciiText(80) /\ ecl = "M") =>
    /\ byteLength(text) = 80
    /\ pc # "failed"
    /\ Selected =>
         /\ version = 5
         /\ CapacityBound(5, 80, "M")
         /\ \A w \in 1..4 : ~CapacityBound(w, 80, "M")
    /\ Produced =>
         /\ size = 37
         /\ DOMAIN matrix = 0..36
         /\ \A r \in 0..36 : DOMAIN matrix[r] = 0..36

C3_Witness == Produced /\ text = AsciiText(80) /\ ecl = "M" /\ version = 5 /\ size = 37

\* C4 as stated: at level M a 17-byte payload selects version 1 and an
\* 18-byte payload selects version 2.
C4_Original ==
  (Selected /\ ecl = "M") =>
    /\ byteLength(text) = 17 => version = 1
    /\ byteLength(text) = 18 => version = 2

\* C4 as amended: at level M the boundary between versions 1 and 2 lies
\* between 14 and 15 payload bytes (14 bytes and fewer select version 1, 15
\* bytes select version 2, and so do 17 and 18); the boundary between 17 and
\* 18 bytes is that of level L.
C4_Boundary ==
  /\ (pc # "chooseVersion" /\ ecl = "M") =>
       /\ byteLength(text) <= 14 => (Selected /\ version = 1)
       /\ byteLength(text) \in {15, 17, 18} => (Selected /\ version = 2)
  /\ (pc # "chooseVersion" /\ ecl = "L") =>
       /\ byteLength(text) <= 17 => (Selected /\ version = 1)
       /\ byteLength(text) = 18 => (Selected /\ version = 2)

C4_Witness == Selected /\ ecl = "M" /\ byteLength(text) = 15 /\ version = 2

\* The call has passed createMatrix.
AfterCreate == pc \in {"placeData", "applyMask", "placeFormatInfo", "done"}

\* m is a square grid of side n.
SquareOfSide(m, n) ==
  /\ DOMAIN m = 0..(n - 1)
  /\ \A r \in 0..(n - 1) : DOMAIN m[r] = 0..(n - 1)

\* C5: a call whose payload meets the capacity bound of version 10 at its
\* level runs to the end and yields a square matrix of side 17 + 4 v, v the
\* version chooseVersion returned.
C5_Terminates ==
  (pc = "chooseVersion" /\ CapacityBound(10, byteLength(text), ecl))
    ~> (/\ Produced
        /\ version \in 1..10
        /\ size = 17 + 4 * version
        /\ SquareOfSide(matrix, size)
        /\ SquareOfSide(reserved, size))

C5_Witness ==
  /\ Produced /\ version = 10 /\ size = 57
  /\ CapacityBound(10, byteLength(text), ecl)
  /\ SquareOfSide(matrix, 57)

\* C6: version selection is monotonic: for the payload length n of the call
\* and every longer length n2 at the same level, a version selected for n2 is
\* no smaller than the one selected for n, and if n is refused so is n2.
C6_Monotonic ==
  pc # "chooseVersion" =>
    \A n2 \in (byteLength(text) + 1)..MaxLen :
      LET v2 == chooseVersion(n2, ecl)
      IN /\ (Selected /\ v2 # 0) => version <= v2
         /\ pc = "failed" => v2 = 0

C6_Witness ==
  /\ Selected /\ ecl = "M" /\ byteLength(text) = 14 /\ version = 1
  /\ chooseVersion(15, "M") = 2

\* The dark modules of a finder pattern, at offset (r, c) in 0..6 of its
\* corner: the border ring and the 3 x 3 core.
FinderDark(r, c) ==
  \/ r \in {0, 6} \/ c \in {0, 6}
  \/ (r \in 2..4 /\ c \in 2..4)

\* The corners of the three finder patterns in a matrix of side n.
FinderCorners(n) == {<<0, 0>>, <<0, n - 7>>, <<n - 7, 0>>}

\* C7: from createMatrix on, every cell of the three 7 x 7 finder patterns
\* and of the two timing patterns (row 6 and column 6, indices 8..size-9) is
\* reserved and holds the value createMatrix stamped, which is the pattern of
\* the version alone: placeData, applyMask and placeFormatInfo leave it.
C7_FinderTimingFixed ==
  AfterCreate =>
    LET g == createMatrix(version)
    IN /\ \A k \in FinderCorners(size) : \A r \in 0..6 : \A c \in 0..6 :
            /\ reserved[k[1] + r][k[2] + c]
            /\ matrix[k[1] + r][k[2] + c] = g.matrix[k[1] + r][k[2] + c]
            /\ matrix[k[1] + r][k[2] + c] = (IF FinderDark(r, c) THEN 1 ELSE 0)
       /\ \A i \in 8..(size - 9) :
            /\ reserved[6][i] /\ reserved[i][6]
            /\ matrix[6][i] = g.matrix[6][i] /\ matrix[i][6] = g.matrix[i][6]
            /\ matrix[6][i] = (IF i % 2 = 0 THEN 1 ELSE 0)
            /\ matrix[i][6] = (IF i % 2 = 0 THEN 1 ELSE 0)

C7_Witness ==
  /\ Produced /\ version = 10
  /\ matrix[0][0] = 1 /\ matrix[1][1] = 0 /\ matrix[52][2] = 1
  /\ matrix[6][9] = 0 /\ reserved[6][9] /\ matrix[8][6] = 1

\* C8: placeData and applyMask leave every reserved cell at the value
\* createMatrix gave it; a step that changes the value of a reserved cell is
\* placeFormatInfo.
C8_ReservedUntouched ==
  [][/\ (\E r \in 0..(size - 1) : \E c \in 0..(size - 1) :
           reserved[r][c] /\ matrix'[r][c] # matrix[r][c])
        => pc = "placeFormatInfo"
     /\ pc \in {"placeData", "applyMask"} =>
          LET g == createMatrix(version)
          IN \A r \in 0..(size - 1) : \A c \in 0..(size - 1) :
               reserved[r][c] =>
                 (matrix'[r][c] = matrix[r][c] /\ matrix'[r][c] = g.matrix[r][c])]_vars

C8_Witness ==
  /\ pc = "placeFormatInfo" /\ version = 2
  /\ reserved[18][18] /\ matrix[18][18] = 1
  /\ reserved[8][0] /\ matrix[8][0] = 0
  /\ ~reserved[24][24] /\ matrix[24][24] # codewords[1] \div 128

\* The classes of a module of the produced matrix: stamped by a structural
\* pattern (finder with separator, timing, alignment, dark module), written
\* by the format-info encoder, written by data placement.
IsStructural(r, c) == StampPatterns(version, size).reserved[r][c]

IsFormatInfo(r, c) ==
  \/ r = 8 /\ \E i \in 1..15 : HPositions(size)[i] = c
  \/ c = 8 /\ \E i \in 1..15 : VPositions(size)[i] = r

IsData(r, c) == c # 6 /\ ~reserved[r][c]

\* C9 as stated: every module of a produced matrix is in exactly one of the
\* three classes.
C9_Original ==
  Produced =>
    LET structural == StampPatterns(version, size).reserved
    IN \A r \in 0..(size - 1) : \A c \in 0..(size - 1) :
         /\ ~(structural[r][c] /\ IsFormatInfo(r, c))
         /\ ~(structural[r][c] /\ IsData(r, c))
         /\ ~(IsFormatInfo(r, c) /\ IsData(r, c))
         /\ structural[r][c] \/ IsFormatInfo(r, c) \/ IsData(r, c)

\* The 15 modules at the given cells, read as a word, first cell the most
\* significant bit.
ReadWord(m, cells) ==
  LET RECURSIVE value(_)
      value(i) == IF i = 0 THEN 0 ELSE 2 * value(i - 1) + m[cells[i][1]][cells[i][2]]
  IN value(15)

RowStrip(n) == [i \in 1..15 |-> <<8, HPositions(n)[i]>>]

ColStrip(n) == [i \in 1..15 |-> <<VPositions(n)[i], 8>>]

\* The remainder of the polynomial w modulo g over GF(2), g of degree 10.
RECURSIVE Gf2Mod(_, _)
Gf2Mod(w, g) ==
  IF w < 1024 THEN w
  ELSE LET d == CHOOSE k \in 10..30 : Pow2(k) <= w /\ w < Pow2(k + 1)
       IN Gf2Mod(XOR(w, g * Pow2(d - 10)), g)

\* C10: the 15 bits read back from either format strip of a produced matrix,
\* with the mask 0b101010000010010 removed, leave remainder 0 modulo the
\* generator 0b10100110111.
C10_FormatSyndromeZero ==
  Produced =>
    /\ Gf2Mod(XOR(ReadWord(matrix, RowStrip(size)), 21522), 1335) = 0
    /\ Gf2Mod(XOR(ReadWord(matrix, ColStrip(size)), 21522), 1335) = 0

C10_Witness ==
  /\ Produced /\ ecl = "Q" /\ version = 4
  /\ ReadWord(matrix, RowStrip(size)) = ReadWord(matrix, ColStrip(size))
  /\ ReadWord(matrix, RowStrip(size)) \div 8192 = 1

\* C11: a call on a (text, ecl) pair that an earlier call of the same process
\* encoded produces the matrix that call produced, the same size and the same
\* value in every cell, whichever calls ran in between.
C11_Deterministic ==
  Produced =>
    \A i \in 1..Len(history) :
      (history[i].text = text /\ history[i].ecl = ecl) =>
        /\ history[i].size = size
        /\ \A r \in 0..(size - 1) : \A c \in 0..(size - 1) :
             history[i].matrix[r][c] = matrix[r][c]

C11_Witness ==
  /\ Produced /\ Len(history) = 2
  /\ history[1].text = text /\ history[1].ecl = ecl
  /\ history[2].text # text /\ history[2].size # size
  /\ history[1].matrix = matrix

\* The locals of the first call.
locals == <<pc, text, ecl, version, codewords, size, matrix, reserved, error, svg>>

\* The matrix a call of generateQR(t, e, ...) builds when it runs alone.
RunAlone(t, e) ==
  LET v == chooseVersion(byteLength(t), e)
      g == createMatrix(v)
      placed == placeData(g.matrix, g.reserved, encodeData(t, v, e), g.size)
      masked == applyMask(placed, g.reserved, g.size)
  IN [size |-> g.size, matrix |-> placeFormatInfo(masked, g.size, e)]

\* C12: in every interleaving of the steps of two calls, a step of one call
\* leaves the locals of the other as they are, no step changes the GF(256)
\* tables from their initial contents, and the matrix each call completes is
\* the matrix the call builds when it runs alone.
C12_Isolation ==
  [][/\ GF256_EXP' = GfInit.exp /\ GF256_LOG' = GfInit.log
     /\ peer' # peer => locals' = locals
     /\ locals' # locals => peer' = peer
     /\ (pc' = "done" /\ pc # "done") =>
          (size' = RunAlone(text, ecl).size /\ matrix' = RunAlone(text, ecl).matrix)
     /\ (peer'.pc = "done" /\ peer.pc # "done") =>
          /\ peer'.size = RunAlone(peer.text, peer.ecl).size
          /\ peer'.matrix = RunAlone(peer.text, peer.ecl).matrix]_vars

C12_Witness ==
  /\ pc = "returned" /\ peer.pc = "returned"
  /\ peer.text # text /\ peer.ecl # ecl /\ peer.size # size
  /\ peer.matrix # matrix
  /\ GF256_EXP = GfInit.exp

\* C13 as stated: a level outside L, M, Q, H is rejected with an
\* InvalidArgument failure before chooseVersion is entered, and the call
\* leaves no matrix and no markup.
C13_Original ==
  (pc \notin {"main", "usage"} /\ ecl \notin ECLs) =>
    /\ pc = "failed"
    /\ error # <<>> /\ error[1].name = "InvalidArgument"
    /\ matrix = <<>> /\ svg = <<>>

\* The hundredth nearest to num / den.
Nearest(num, den) ==
  LET low == (100 * num) \div den
  IN IF 2 * (100 * num - low * den) < den THEN low ELSE low + 1

\* The children of the svg element that are placed rects (they have x and y).
PlacedRects == {i \in 1..Len(svg.children) : "x" \in DOMAIN svg.children[i]}

\* The dark modules of the matrix, as <<r, c>>.
DarkModules ==
  {rc \in (0..(size - 1)) \X (0..(size - 1)) : matrix[rc[1]][rc[2]] # 0}

\* C14: the markup has width and height px (256 without --size), exactly one
\* rect without a position, which covers the px x px canvas, and exactly one
\* placed rect per dark module and none for a light one: the rect of module
\* (r, c) is at (c + quiet, r + quiet) times px / (size + 2 quiet), one such
\* unit wide and high.
C14_SvgRects ==
  pc = "returned" =>
    LET total == size + 2 * opts.quiet
        at(rc) == <<Nearest((rc[2] + opts.quiet) * opts.px, total),
                    Nearest((rc[1] + opts.quiet) * opts.px, total)>>
        placed == {<<svg.children[i].x, svg.children[i].y>> : i \in PlacedRects}
    IN /\ svg.width = opts.px /\ svg.height = opts.px
       /\ argv.size = <<>> => svg.width = 256
       /\ Cardinality(PlacedRects) = Len(svg.children) - 1
       /\ \A i \in 1..Len(svg.children) :
            i \notin PlacedRects =>
              (svg.children[i].width = opts.px /\ svg.children[i].height = opts.px)
       /\ Cardinality(PlacedRects) = Cardinality(DarkModules)
       /\ placed = {at(rc) : rc \in DarkModules}
       /\ Cardinality(placed) = Cardinality(DarkModules)
       /\ \A i \in PlacedRects :
            /\ svg.children[i].width = Nearest(opts.px, total)
            /\ svg.children[i].height = Nearest(opts.px, total)

C14_Witness ==
  /\ pc = "returned" /\ argv.size = <<>> /\ svg.width = 256
  /\ opts.quiet = 2 /\ size = 25
  /\ Cardinality(PlacedRects) > 100
  /\ Cardinality(DarkModules) < size * size
  /\ matrix[0][0] # 0 /\ svg.children[2].x = 1766 /\ svg.children[2].y = 1766

\* The number of modules of the matrix that are not reserved.
FreeModules ==
  Cardinality({rc \in (0..(size - 1)) \X (0..(size - 1)) : ~reserved[rc[1]][rc[2]]})

\* C15 as stated: the codeword stream handed to placeData has exactly as many
\* bits as the matrix has modules that are not reserved, so placeData never
\* fills a module with 0 for want of codeword bits.
C15_Original ==
  AfterCreate => 8 * Len(codewords) = FreeModules

\* C16 as stated: the modules that are not reserved are at least as many as
\* the bits of the data and EC codewords, and when placeData returns bitIdx
\* has reached totalBits.
C16_Original ==
  AfterCreate =>
    /\ FreeModules >= 8 * (DATA_CAPACITY[ecl][version] + EC_PER_BLOCK[ecl][version])
    /\ pc = "applyMask" =>
         PlaceDataRun(createMatrix(version).matrix, reserved, codewords, size).bitIdx
           = 8 * Len(codewords)

\* Multiplication by x in GF(2)[x] modulo x^8 + x^4 + x^3 + x^2 + 1 (0x11D).
Times2(a) == IF 2 * a >= 256 THEN XOR(2 * a, 285) ELSE 2 * a

\* a times x^n modulo 0x11D.
RECURSIVE Times2N(_, _)
Times2N(a, n) ==
  IF n = 0 THEN a
  ELSE IF n = 1 THEN Times2(a)
  ELSE LET h == n \div 2
           first == Times2N(a, h)
       IN IF Ready(first) THEN Times2N(first, n - h) ELSE first

\* The powers 2^0 .. 2^254 in GF(256), and the exponent of every non-zero
\* element; both from the polynomial arithmetic above.
AlphaPow == Eager([k \in 0..254 |-> Times2N(1, k)])

AlphaLog == Eager([a \in 1..255 |-> CHOOSE k \in 0..254 : AlphaPow[k] = a])

\* The terms j in lo..hi of the polynomial whose coefficients, highest degree
\* first, are the codewords, added up at the point 2^i.
RECURSIVE CodewordPolyAt(_, _, _)
CodewordPolyAt(lo, hi, i) ==
  IF lo > hi THEN 0
  ELSE IF lo = hi
  THEN IF codewords[lo] = 0 THEN 0
       ELSE AlphaPow[(AlphaLog[codewords[lo]] + i * (Len(codewords) - lo)) % 255]
  ELSE LET mid == (lo + hi) \div 2
       IN XOR(CodewordPolyAt(lo, mid, i), CodewordPolyAt(mid + 1, hi, i))

\* C17: for the data codewords D of a call and n = EC_PER_BLOCK[ecl][version],
\* rsEncode(D, n) is n bytes R such that D(x) x^n + R(x) over GF(256) is 0 at
\* 2^i for every i in 0..n-1, that is, divisible by the generator.
C17_RsRemainder ==
  pc = "createMatrix" =>
    LET n == EC_PER_BLOCK[ecl][version]
    IN /\ Len(codewords) - DATA_CAPACITY[ecl][version] = n
       /\ \A j \in 1..Len(codewords) : codewords[j] \in 0..255
       /\ \A i \in 0..(n - 1) : CodewordPolyAt(1, Len(codewords), i) = 0

C17_Witness ==
  /\ pc = "createMatrix" /\ version = 10 /\ ecl = "H"
  /\ Len(codewords) = 150
  /\ \E j \in 123..150 : codewords[j] # 0
  /\ CodewordPolyAt(1, 150, 27) = 0
  /\ CodewordPolyAt(1, 150, 28) # 0

\* C18: for every version and level, also where EC_BLOCKS is more than 1, the
\* stream encodeData returns has DATA_CAPACITY + EC_PER_BLOCK codewords: the
\* bytes of the padded bit stream, in order, and then the EC codewords of
\* all of them as one block.
C18_SingleBlock ==
  pc = "createMatrix" =>
    LET dc == DATA_CAPACITY[ecl][version]
        n == EC_PER_BLOCK[ecl][version]
        bits == DataBits(text, version, ecl)
    IN /\ Len(codewords) = dc + n
       /\ Len(bits) = 8 * dc
       /\ \A j \in 1..dc : codewords[j] = ByteAt(bits, 8 * (j - 1))
       /\ SubSeq(codewords, dc + 1, dc + n) = rsEncode(SubSeq(codewords, 1, dc), n)

C18_Witness ==
  /\ pc = "createMatrix" /\ version = 5 /\ ecl = "Q"
  /\ EC_BLOCKS[ecl][version] = 4
  /\ Len(codewords) = 62 + 18
  /\ codewords[1] = 67 /\ codewords[2] # 0

\* The number of codewords taken by the mode indicator, the length field, the
\* payload and the 4-bit terminator of the current call.
TerminatedCodewords ==
  Ceil(4 + (IF version <= 9 THEN 8 ELSE 16) + 8 * byteLength(text) + 4, 8)

\* C19: for the version chooseVersion returned there are exactly
\* DATA_CAPACITY[ecl][version] data codewords, and every data codeword after
\* the terminator is a pad byte: 0xEC, 0x11, 0xEC, 0x11, ... from 0xEC on.
C19_PadBytes ==
  pc = "createMatrix" =>
    LET dc == DATA_CAPACITY[ecl][version]
    IN /\ Len(codewords) - EC_PER_BLOCK[ecl][version] = dc
       /\ Len(DataBits(text, version, ecl)) = 8 * dc
       /\ TerminatedCodewords <= dc
       /\ \A j \in (TerminatedCodewords + 1)..dc :
            codewords[j] = IF (j - TerminatedCodewords) % 2 = 1 THEN 236 ELSE 17

C19_Witness ==
  /\ pc = "createMatrix" /\ text = Hello /\ ecl = "M" /\ version = 1
  /\ TerminatedCodewords = 7
  /\ codewords[8] = 236 /\ codewords[9] = 17 /\ codewords[16] = 236
  /\ codewords[7] = 240

\* Bit k (from 0) of the codeword stream, the most significant bit of a
\* codeword first.
StreamBit(k) == (codewords[(k \div 8) + 1] \div Pow2(7 - (k % 8))) % 2

\* The len bits of the stream from bit start on, read as a number, the most
\* significant bit first.
RECURSIVE StreamField(_, _)
StreamField(start, len) ==
  IF len = 0 THEN 0
  ELSE 2 * StreamField(start, len - 1) + StreamBit(start + len - 1)

\* C20: the stream starts with 0100, then the length field of 8 bits for a
\* version up to 9 and 16 bits for version 10, which holds the number of UTF-8
\* bytes of the payload (not of its characters), the number chooseVersion was
\* given, then the bytes of the payload in order, each most significant bit
\* first.
C20_Header ==
  pc = "createMatrix" =>
    LET cc == IF version <= 9 THEN 8 ELSE 16
        bytes == Utf8Bytes(text)
    IN /\ StreamField(0, 4) = 4
       /\ StreamField(4, cc) = Len(bytes)
       /\ (\E k \in 1..Len(text) : text[k] >= 128) => StreamField(4, cc) > Len(text)
       /\ version = chooseVersion(StreamField(4, cc), ecl)
       /\ \A j \in 1..Len(bytes) : StreamField(4 + cc + 8 * (j - 1), 8) = bytes[j]

C20_Witness ==
  /\ pc = "createMatrix" /\ text = MixedText(80, 1) /\ ecl = "L"
  /\ StreamField(4, 8) = 161 /\ Len(text) = 80
  /\ StreamField(12, 8) = 195 /\ StreamField(20, 8) = 169

\* The right-hand column of the j-th two-column lane (j from 0) of a matrix of
\* side n: n-1, n-3, ..., 8, then 5, 3, 1.
LaneColumn(n, j) == IF n - 1 - 2 * j >= 8 THEN n - 1 - 2 * j ELSE n - 2 - 2 * j

\* The cells of a matrix of side n in the stated order: lane after lane, the
\* even lanes bottom-to-top and the odd ones top-to-bottom, in each row the
\* right cell before the left one. Column 6 is in no lane.
VisitOrder(n) ==
  [i \in 1..(n * (n - 1)) |->
     LET j == (i - 1) \div (2 * n)
         k == ((i - 1) % (2 * n)) \div 2
     IN <<IF j % 2 = 0 THEN n - 1 - k ELSE k, LaneColumn(n, j) - ((i - 1) % 2)>>]

\* The cells of the stated order that are not reserved.
FreeInOrder == SelectSeq(VisitOrder(size), LAMBDA rc : ~reserved[rc[1]][rc[2]])

\* C21 as stated: when placeData returns, no cell of column 6 is among the
\* cells it wrote, and the k-th non-reserved cell of the stated order (k from
\* 0) holds bit k of the codeword stream, MSB first within each byte.
C21_Original ==
  pc = "applyMask" =>
    LET free == FreeInOrder
    IN /\ \A r \in 0..(size - 1) : reserved[r][6]
       /\ \A k \in 0..(Len(free) - 1) :
            /\ k < 8 * Len(codewords)
            /\ matrix[free[k + 1][1]][free[k + 1][2]] = StreamBit(k)

\* The cells of the two format strips as the claim lists them: row 8 at
\* columns 0..5, 7, 8, n-8..n-2 and column 8 at rows n-1..n-7, 8, 7, 5..0.
Row8Cells(n) ==
  [i \in 1..15 |-> <<8, IF i <= 6 THEN i - 1 ELSE IF i <= 8 THEN i ELSE n - 17 + i>>]

Col8Cells(n) ==
  [i \in 1..15 |-> <<IF i <= 7 THEN n - i ELSE IF i <= 9 THEN 16 - i ELSE 15 - i, 8>>]

\* The 2-bit indicator of each level as the claim gives it.
LevelIndicator(e) ==
  CASE e = "L" -> 1 [] e = "M" -> 0 [] e = "Q" -> 3 [] e = "H" -> 2

\* The 15-bit word of a level: the 5-bit field (indicator, mask id 0), its
\* 10-bit remainder modulo 0b10100110111, XORed with 0b101010000010010.
FormatWord(e) ==
  LET field == LevelIndicator(e) * 8
  IN XOR(field * 1024 + Gf2Mod(field * 1024, 1335), 21522)

\* C22: in a produced matrix the row-8 strip and the column-8 strip, each
\* read MSB first, both hold the 15-bit format word of the call's level, and
\* the cell (8, 8) they share holds the bit both strips assign to it.
C22_FormatStrips ==
  Produced =>
    /\ ReadWord(matrix, Row8Cells(size)) = FormatWord(ecl)
    /\ ReadWord(matrix, Col8Cells(size)) = FormatWord(ecl)
    /\ Row8Cells(size)[8] = <<8, 8>> /\ Col8Cells(size)[8] = <<8, 8>>
    /\ matrix[8][8] = BitAt(FormatWord(ecl), 7)

C22_Witness ==
  /\ Produced /\ ecl = "H" /\ version = 3
  /\ ReadWord(matrix, Row8Cells(size)) = 5769
  /\ ReadWord(matrix, Col8Cells(size)) = 5769
  /\ matrix[8][8] = 1 /\ matrix[8][size - 2] = 1 /\ matrix[0][8] = 1

\* (r, c) is a cell of a finder pattern or of its separator, in a matrix of
\* side n.
InFinderOrSeparator(n, r, c) ==
  \/ r <= 7 /\ c <= 7
  \/ r <= 7 /\ c >= n - 8
  \/ r >= n - 8 /\ c <= 7

\* (r, c) is a cell of a timing pattern.
InTimingPattern(n, r, c) ==
  (r = 6 \/ c = 6) /\ ~InFinderOrSeparator(n, r, c)

\* The value of a finder, separator or timing cell.
FixedValue(n, r, c) ==
  IF InTimingPattern(n, r, c) THEN (IF (r + c) % 2 = 0 THEN 1 ELSE 0)
  ELSE LET fr == IF r <= 7 THEN r ELSE r - (n - 7)
           fc == IF c <= 7 THEN c ELSE c - (n - 7)
       IN IF fr \in 0..6 /\ fc \in 0..6 /\ FinderDark(fr, fc) THEN 1 ELSE 0

\* The 5 x 5 footprint centred on (r, c).
Footprint(r, c) == ((r - 2)..(r + 2)) \X ((c - 2)..(c + 2))

\* The footprint of (r, c) meets a finder, separator or timing cell.
FootprintOverlaps(n, r, c) ==
  \E q \in Footprint(r, c) :
    InFinderOrSeparator(n, q[1], q[2]) \/ InTimingPattern(n, q[1], q[2])

\* The (row, col) pairs of the alignment table of version v.
TablePairs(v) ==
  LET positions == {ALIGNMENT_POSITIONS[v][i] : i \in DOMAIN ALIGNMENT_POSITIONS[v]}
  IN positions \X positions

\* C23: for versions 2..10 the matrix createMatrix returns holds a 5 x 5
\* alignment pattern (dark border, light ring, dark centre, all reserved) at
\* every pair of the version's table whose footprint meets no finder,
\* separator or timing cell, and at no other pair: every reserved cell is a
\* finder, separator or timing cell, a cell of such a pattern or a format
\* cell. Every finder, separator and timing cell keeps its own value, and a
\* pair's centre is a finder, separator or timing cell exactly when its
\* footprint meets one.
C23_Alignment ==
  (AfterCreate /\ version >= 2) =>
    LET placed == {p \in TablePairs(version) : ~FootprintOverlaps(size, p[1], p[2])}
    IN /\ \A p \in TablePairs(version) :
            FootprintOverlaps(size, p[1], p[2])
              <=> (InFinderOrSeparator(size, p[1], p[2]) \/ InTimingPattern(size, p[1], p[2]))
       /\ \A p \in placed : \A q \in Footprint(p[1], p[2]) :
            /\ reserved[q[1]][q[2]]
            /\ matrix[q[1]][q[2]] =
                 (IF q = p \/ q[1] - p[1] \in {-2, 2} \/ q[2] - p[2] \in {-2, 2} THEN 1 ELSE 0)
       /\ \A r \in 0..(size - 1) : \A c \in 0..(size - 1) :
            /\ (InFinderOrSeparator(size, r, c) \/ InTimingPattern(size, r, c)) =>
                 (reserved[r][c] /\ matrix[r][c] = FixedValue(size, r, c))
            /\ reserved[r][c] =>
                 \/ InFinderOrSeparator(size, r, c) \/ InTimingPattern(size, r, c)
                 \/ InFormatArea(size, r, c)
                 \/ \E p \in placed : <<r, c>> \in Footprint(p[1], p[2])

C23_Witness ==
  /\ pc = "placeData" /\ version = 7 /\ size = 45
  /\ <<6, 22>> \in TablePairs(7) /\ FootprintOverlaps(45, 6, 22)
  /\ reserved[6][22] /\ ~reserved[5][22] /\ ~reserved[4][20]
  /\ <<22, 38>> \in TablePairs(7) /\ ~FootprintOverlaps(45, 22, 38)
  /\ reserved[20][36] /\ matrix[20][36] = 1 /\ matrix[21][37] = 0 /\ matrix[22][38] = 1

\* C24: the step of applyMask turns over the value of every module that is
\* not reserved and has row + col even, leaves every other module as it was,
\* and leaves the reserved grid as it was.
C24_MaskStep ==
  [][pc = "applyMask" =>
       /\ reserved' = reserved
       /\ DOMAIN matrix' = DOMAIN matrix
       /\ \A r \in 0..(size - 1) :
            /\ DOMAIN matrix'[r] = DOMAIN matrix[r]
            /\ \A c \in 0..(size - 1) :
                 matrix'[r][c] =
                   (IF ~reserved[r][c] /\ (r + c) % 2 = 0
                    THEN 1 - matrix[r][c] ELSE matrix[r][c])]_vars

C24_Witness ==
  /\ pc = "placeFormatInfo" /\ version = 1
  /\ ~reserved[20][20] /\ matrix[20][20] = 1 - StreamBit(0)
  /\ ~reserved[20][19] /\ matrix[20][19] = StreamBit(1)
  /\ ~reserved[19][19] /\ matrix[19][19] = 1 - StreamBit(3)
  /\ reserved[0][0] /\ matrix[0][0] = 1

\* The product of the polynomials a and b over GF(2) modulo 0x11D: the sum
\* (XOR) of a times x^i over the bits i set in b, from bit i up.
RECURSIVE PolyProduct(_, _, _)
PolyProduct(a, b, i) ==
  IF i > 7 THEN 0
  ELSE XOR(IF BitAt(b, i) = 1 THEN Times2N(a, i) ELSE 0, PolyProduct(a, b, i + 1))

\* C25: for all bytes a and b, gfMul(a, b) is the product of a and b as
\* polynomials over GF(2) modulo 0x11D; it is 0 when an operand is 0 and
\* otherwise the power of 2 whose exponent is the sum of the logarithms of a
\* and b modulo 255; the operands commute, 1 is the identity, and the result
\* is a byte.
C25_GfMul ==
  mul.pc = "returned" =>
    /\ mul.result = PolyProduct(mul.a, mul.b, 0)
    /\ (mul.a = 0 \/ mul.b = 0) => mul.result = 0
    /\ (mul.a # 0 /\ mul.b # 0) =>
         mul.result = AlphaPow[(AlphaLog[mul.a] + AlphaLog[mul.b]) % 255]
    /\ mul.result = gfMul(mul.b, mul.a)
    /\ (mul.b = 1 => mul.result = mul.a) /\ (mul.a = 1 => mul.result = mul.b)
    /\ mul.result \in 0..255

C25_Witness ==
  /\ mul.pc = "returned" /\ mul.a = 128 /\ mul.b = 2 /\ mul.result = 29
  /\ GF256_LOG[128] + GF256_LOG[2] = 8
  /\ gfMul(142, 2) = 1 /\ GF256_LOG[142] + GF256_LOG[2] = 255

\* C26: for the payload and level of a call for which chooseVersion returned
\* a version, at least 4 capacity bits are left after the mode indicator, the
\* length field and the payload, so termLen is 4; the codeword stream has 4
\* zero bits there; the stream is a whole number of bytes once the
\* terminator is pushed, so the pad-to-byte loop pushes nothing. The same
\* bound holds for every byte length up to MaxLen that selects this version.
C26_Terminator ==
  pc = "createMatrix" =>
    LET bytes == Utf8Bytes(text)
        header == HeaderBits(bytes, version)
        terminated == header \o PushBits(0, TermLen(bytes, version, ecl))
    IN /\ DataTotalBits(version, ecl) - Len(header) >= 4
       /\ TermLen(bytes, version, ecl) = 4
       /\ Len(terminated) = Len(header) + 4
       /\ StreamField(Len(header), 4) = 0
       /\ Len(terminated) % 8 = 0
       /\ PadToByte(terminated) = terminated
       /\ \A n \in 0..MaxLen :
            chooseVersion(n, ecl) = version =>
              /\ 8 * DATA_CAPACITY[ecl][version] - (4 + (IF version <= 9 THEN 8 ELSE 16) + 8 * n) >= 4
              /\ (4 + (IF version <= 9 THEN 8 ELSE 16) + 8 * n + 4) % 8 = 0

C26_Witness ==
  /\ pc = "createMatrix" /\ ecl = "M" /\ version = 1 /\ byteLength(text) = 14
  /\ DataTotalBits(1, "M") - Len(HeaderBits(Utf8Bytes(text), 1)) = 4
  /\ TermLen(Utf8Bytes(text), 1, "M") = 4
  /\ codewords[16] = (text[14] % 16) * 16

\* C27: from the return of createMatrix to the end of the call the module at
\* (size - 8, 8) is reserved and dark: no later step of the call changes it.
C27_DarkModule ==
  (AfterCreate \/ Produced) =>
    /\ reserved[size - 8][8]
    /\ matrix[size - 8][8] = 1
    /\ createMatrix(version).matrix[size - 8][8] = 1

C27_Witness ==
  /\ pc = "returned" /\ version = 1 /\ ecl = "H"
  /\ reserved[13][8] /\ matrix[13][8] = 1
  /\ matrix[14][8] = 0 /\ matrix[12][8] = 0 /\ reserved[12][8]

\* The number a sequence of bits spells, the first bit the most significant.
RECURSIVE BitsValue(_)
BitsValue(bits) ==
  IF bits = <<>> THEN 0
  ELSE 2 * BitsValue(SubSeq(bits, 1, Len(bits) - 1)) + bits[Len(bits)]

\* C28: for every byte length n and level for which chooseVersion returns a
\* version v, n is below 2^ccBits(v), ccBits the width encodeData gives the
\* length field (so n <= 255 when v <= 9), and the bits encodeData pushes for
\* the field spell n.
C28_LengthField ==
  Selected =>
    LET n == byteLength(text)
    IN /\ n < Pow2(CcBits(version))
       /\ version <= 9 => n <= 255
       /\ Len(PushBits(n, CcBits(version))) = CcBits(version)
       /\ BitsValue(PushBits(n, CcBits(version))) = n

C28_Witness ==
  /\ Selected /\ ecl = "L" /\ version = 10 /\ byteLength(text) = 271
  /\ CcBits(version) = 16
  /\ PushBits(271, 16) = <<0, 0, 0, 0, 0, 0, 0, 1, 0, 0, 0, 0, 1, 1, 1, 1>>
  /\ chooseVersion(230, "L") = 9 /\ chooseVersion(231, "L") = 10

\* C29: the two tables are inverse to each other: GF256_EXP maps the indices
\* 0..254 one-to-one onto 1..255, GF256_LOG[GF256_EXP[i]] = i for i in 0..254,
\* GF256_EXP[GF256_LOG[a]] = a for a in 1..255, and GF256_EXP[255] =
\* GF256_EXP[0] = 1.
C29_TablesInverse ==
  /\ DOMAIN GF256_EXP = 0..255 /\ DOMAIN GF256_LOG = 0..255
  /\ {GF256_EXP[i] : i \in 0..254} = 1..255
  /\ Cardinality({GF256_EXP[i] : i \in 0..254}) = Cardinality(0..254)
  /\ \A i \in 0..254 : GF256_LOG[GF256_EXP[i]] = i
  /\ \A a \in 1..255 : GF256_EXP[GF256_LOG[a]] = a
  /\ GF256_EXP[255] = GF256_EXP[0] /\ GF256_EXP[0] = 1

C29_Witness ==
  /\ pc = "createMatrix" /\ Len(codewords) > 0
  /\ GF256_EXP[1] = 2 /\ GF256_EXP[8] = 29 /\ GF256_LOG[29] = 8
  /\ GF256_EXP[254] = 142 /\ GF256_LOG[142] = 254 /\ GF256_LOG[1] = 0

\* C30 as stated: the tables a call of generateQR starts with are consistent:
\* for every version 1..10 and every level the data codewords and the EC
\* codewords of all blocks add up to the total codewords of the version, and
\* the data capacity of a level grows strictly with the version.
C30_Original ==
  pc = "chooseVersion" =>
    \A e \in ECLs :
      /\ \A v \in 1..10 :
           DATA_CAPACITY[e][v] + EC_PER_BLOCK[e][v] * EC_BLOCKS[e][v] = TOTAL_CODEWORDS[v]
      /\ \A v \in 1..9 : DATA_CAPACITY[e][v] < DATA_CAPACITY[e][v + 1]

====
